---- MODULE Spec2Model ----
(***************************************************************************)
(* A model of the JWT encode / decode / sign / verify pipeline of lib.rs.  *)
(*                                                                         *)
(* Text is a sequence of byte values (0..255); '.' is byte 46.  The pure   *)
(* functions of lib.rs are operators carrying the source's names; the      *)
(* state machine applies them to inputs drawn from bounded sets: a caller  *)
(* encodes a claims record, an attacker tampers with the signature of the  *)
(* issued token or crafts a token from segments (possibly signing it with  *)
(* a secret), and a caller decodes the token.                              *)
(*                                                                         *)
(* The library routines lib.rs calls are modelled by what they compute:    *)
(* rustc_serialize's URL-safe base64 and its JSON encoder, parser and      *)
(* decoder, String::from_utf8, and rust-crypto's HMAC over SHA-256,        *)
(* SHA-384 and SHA-512 (FIPS 180-4, RFC 2104) on 16-bit limbs.             *)
(***************************************************************************)
EXTENDS Naturals, Sequences, FiniteSets

VARIABLES
    pc,          \* which call was made last
    claims,      \* encode: claims
    secret,      \* encode: secret (the secret a crafted token was signed with)
    algorithm,   \* encode: algorithm
    token,       \* the token text: encode's result, tampered with, or crafted
    dsecret,     \* decode: secret
    dalgorithm,  \* decode: algorithm
    result,      \* decode's Result<Claims, Error>
    htext,       \* Header::from_base64: encoded
    hresult      \* Header::from_base64's Result<Header, Error>

vars == <<pc, claims, secret, algorithm, token, dsecret, dalgorithm, result, htext, hresult>>

(***************************************************************************)
(* Bounds of the model.                                                    *)
(***************************************************************************)
\* longest string held by a field of the claims record
MaxFieldLen == 1
\* largest number of '.'-separated segments of a crafted token
MaxSegments == 4

(***************************************************************************)
(* Bytes and text.                                                         *)
(***************************************************************************)
Dot == 46

\* the text a . "." . b
JoinDot(a, b) == a \o <<Dot>> \o b

\* does text p occur in s at position i
MatchAt(s, i, p) ==
    /\ i + Len(p) - 1 <= Len(s)
    /\ \A k \in 1..Len(p) : s[i + k - 1] = p[k]

(***************************************************************************)
(* pub enum Algorithm                                                      *)
(***************************************************************************)
Algorithm == {"HS256", "HS384", "HS512"}

(***************************************************************************)
(* Error kinds of errors::Error that lib.rs returns, and Result values.    *)
(***************************************************************************)
NoClaims == [sub |-> <<>>, company |-> <<>>]

Ok(v) == [kind |-> "Ok", value |-> v]
Err(k) == [kind |-> k, value |-> NoClaims]

(***************************************************************************)
(* rustc_serialize::base64, as lib.rs uses it: to_base64(URL_SAFE) is the  *)
(* url-safe alphabet without padding and without line breaks; from_base64  *)
(* accepts both alphabets, skips CR and LF, and stops at '='.              *)
(***************************************************************************)
\* ABCDEFGHIJKLMNOPQRSTUVWXYZabcdefghijklmnopqrstuvwxyz0123456789-_
UrlSafeChars ==
    <<65, 66, 67, 68, 69, 70, 71, 72, 73, 74, 75, 76, 77, 78, 79, 80, 81, 82,
      83, 84, 85, 86, 87, 88, 89, 90, 97, 98, 99, 100, 101, 102, 103, 104, 105,
      106, 107, 108, 109, 110, 111, 112, 113, 114, 115, 116, 117, 118, 119,
      120, 121, 122, 48, 49, 50, 51, 52, 53, 54, 55, 56, 57, 45, 95>>

ByteAt(b, i) == IF i <= Len(b) THEN b[i] ELSE 0

\* bytes.to_base64(base64::URL_SAFE)
ToBase64(b) ==
    LET n == Len(b)
        outLen == (n * 4 + 2) \div 3
        word(g) == ByteAt(b, 3 * g + 1) * 65536 + ByteAt(b, 3 * g + 2) * 256
                   + ByteAt(b, 3 * g + 3)
        sextet(k) == (word((k - 1) \div 4) \div (64 ^ (3 - ((k - 1) % 4)))) % 64
    IN  SubSeq([k \in 1..outLen |-> UrlSafeChars[sextet(k) + 1]], 1, outLen)

\* the 6-bit code of a base64 character, 64 when the byte is no character
\* of either alphabet
Base64Code(c) ==
    IF c >= 65 /\ c <= 90 THEN c - 65
    ELSE IF c >= 97 /\ c <= 122 THEN c - 71
    ELSE IF c >= 48 /\ c <= 57 THEN c + 4
    ELSE IF c = 43 \/ c = 45 THEN 62
    ELSE IF c = 47 \/ c = 95 THEN 63
    ELSE 64

\* text.from_base64(): Ok bytes or an error.  The loop of from_base64
\* shifts each character's code into an accumulator and pushes three bytes
\* for every fourth code; it skips CR (13) and LF (10), stops at the first
\* '=' (61) and fails on any other byte that is no base64 character.  After
\* the loop only '=', CR and LF may follow, and one pending code is a
\* length error; two pending codes give one more byte, three give two.
FromBase64(s) ==
    LET stops == {i \in 1..Len(s) : s[i] = 61 \/ (Base64Code(s[i]) = 64 /\ s[i] \notin {13, 10})}
        stop == IF stops = {} THEN Len(s) + 1 ELSE CHOOSE i \in stops : \A j \in stops : i <= j
        IsChar(c) == c \notin {13, 10}
        body == SelectSeq(SubSeq(s, 1, stop - 1), IsChar)
        code(k) == IF k <= Len(body) THEN Base64Code(body[k]) ELSE 0
        modulus == Len(body) % 4
        groups == Len(body) \div 4
        word(g) == code(4 * g + 1) * 262144 + code(4 * g + 2) * 4096
                   + code(4 * g + 3) * 64 + code(4 * g + 4)
        outLen == 3 * groups + (IF modulus = 0 THEN 0 ELSE modulus - 1)
        byte(k) == (word((k - 1) \div 3) \div (256 ^ (2 - ((k - 1) % 3)))) % 256
    IN  IF stop <= Len(s) /\ s[stop] # 61 THEN [ok |-> FALSE, bytes |-> <<>>]
        ELSE IF \E k \in (stop + 1)..Len(s) : s[k] \notin {61, 13, 10}
        THEN [ok |-> FALSE, bytes |-> <<>>]
        ELSE IF modulus = 1 THEN [ok |-> FALSE, bytes |-> <<>>]
        ELSE [ok |-> TRUE, bytes |-> [k \in 1..outLen |-> byte(k)]]

(***************************************************************************)
(* String::from_utf8: the bytes are well-formed UTF-8.                     *)
(***************************************************************************)
IsCont(s, i, lo, hi) == i <= Len(s) /\ s[i] >= lo /\ s[i] <= hi

\* the number of bytes of the sequence that the byte b starts, 0 when b
\* starts none
Utf8Width(b) ==
    IF b <= 127 THEN 1
    ELSE IF b >= 194 /\ b <= 223 THEN 2
    ELSE IF b >= 224 /\ b <= 239 THEN 3
    ELSE IF b >= 240 /\ b <= 244 THEN 4
    ELSE 0

\* the byte at i is well placed: a continuation byte (0x80 .. 0xBF) is one
\* of the bytes that the nearest byte before it that starts a sequence
\* asks for; any other byte starts a sequence and is followed by the
\* continuation bytes of that sequence, the first of them in the range
\* that excludes overlong forms, surrogates and values above U+10FFFF
ValidUtf8At(s, i) ==
    LET b == s[i]
    IN  IF b >= 128 /\ b <= 191
        THEN \E d \in 1..3 :
                /\ i - d >= 1
                /\ Utf8Width(s[i - d]) > d
                /\ \A k \in 1..(d - 1) : s[i - k] >= 128 /\ s[i - k] <= 191
        ELSE IF Utf8Width(b) = 1 THEN TRUE
        ELSE IF Utf8Width(b) = 2 THEN IsCont(s, i + 1, 128, 191)
        ELSE IF Utf8Width(b) = 3
        THEN /\ IsCont(s, i + 1, IF b = 224 THEN 160 ELSE 128,
                                 IF b = 237 THEN 159 ELSE 191)
             /\ IsCont(s, i + 2, 128, 191)
        ELSE IF Utf8Width(b) = 4
        THEN /\ IsCont(s, i + 1, IF b = 240 THEN 144 ELSE 128,
                                 IF b = 244 THEN 143 ELSE 191)
             /\ IsCont(s, i + 2, 128, 191)
             /\ IsCont(s, i + 3, 128, 191)
        ELSE FALSE

FromUtf8(s) == \A i \in 1..Len(s) : ValidUtf8At(s, i)

(***************************************************************************)
(* rustc_serialize::json for the claims record of the tests,               *)
(*     struct Claims { sub: String, company: String }.                     *)
(* json::encode writes {"sub":"...","company":"..."}, its strings escaped  *)
(* by escape_str.  json::decode parses any JSON text (Parser and Builder)  *)
(* and then reads the two fields, each a string, from the object parsed;   *)
(* other fields are ignored and the last of equal keys counts.             *)
(***************************************************************************)
Min(S) == CHOOSE x \in S : \A y \in S : x <= y
Max(S) == CHOOSE x \in S : \A y \in S : y <= x

\* {"sub":"
JsonOpen == <<123, 34, 115, 117, 98, 34, 58, 34>>
\* ","company":"
JsonMid == <<34, 44, 34, 99, 111, 109, 112, 97, 110, 121, 34, 58, 34>>
\* "}
JsonClose == <<34, 125>>

\* a lower-case hexadecimal digit
HexDigit(d) == IF d < 10 THEN 48 + d ELSE 87 + d

\* escape_str on one byte: \" \\ \b \t \n \f \r, \u00xx for the other
\* bytes below 0x20 and for 0x7f, the byte itself otherwise
EscapeByte(c) ==
    IF c = 34 \/ c = 92 THEN <<92, c>>
    ELSE IF c = 8 THEN <<92, 98>>
    ELSE IF c = 9 THEN <<92, 116>>
    ELSE IF c = 10 THEN <<92, 110>>
    ELSE IF c = 12 THEN <<92, 102>>
    ELSE IF c = 13 THEN <<92, 114>>
    ELSE IF c < 32 \/ c = 127
    THEN <<92, 117, 48, 48, HexDigit(c \div 16), HexDigit(c % 16)>>
    ELSE <<c>>

\* escape_str on the bytes s[lo..hi]
RECURSIVE EscapeRange(_, _, _)
EscapeRange(s, lo, hi) ==
    IF lo > hi THEN <<>>
    ELSE IF lo = hi THEN EscapeByte(s[lo])
    ELSE LET mid == (lo + hi) \div 2
         IN  EscapeRange(s, lo, mid) \o EscapeRange(s, mid + 1, hi)

\* escape_str without the enclosing quotes
JsonEscape(s) == EscapeRange(s, 1, Len(s))

\* json::encode(&claims)
JsonEncode(c) ==
    JsonOpen \o JsonEscape(c.sub) \o JsonMid \o JsonEscape(c.company) \o JsonClose

\* a Json value: its variant, the text of a String, the (key, value) pairs
\* of an Object in the order read
JsonValue(t) == [type |-> t, str |-> <<>>, fields |-> <<>>]
JsonString(v) == [type |-> "String", str |-> v, fields |-> <<>>]
JsonObject(f) == [type |-> "Object", str |-> <<>>, fields |-> f]

\* a parse result: Ok with the value read and the position after it, or a
\* ParserError
Parsed(j, n) == [ok |-> TRUE, next |-> n, json |-> j]
ParserError == [ok |-> FALSE, next |-> 0, json |-> JsonValue("Null")]

\* Parser::ch_or_null
ch_or_null(s, i) == IF i <= Len(s) THEN s[i] ELSE 0

\* the position of the first character from i on that is not in chars, the
\* position after the text when there is none
FirstNotIn(s, i, chars) ==
    IF i > Len(s) THEN i
    ELSE CHOOSE j \in i..(Len(s) + 1) :
            /\ j = Len(s) + 1 \/ s[j] \notin chars
            /\ \A k \in i..(j - 1) : s[k] \in chars

\* Parser::parse_whitespace: the position of the first character from i on
\* that is none of ' ', '\n', '\t', '\r'
parse_whitespace(s, i) == FirstNotIn(s, i, {32, 10, 9, 13})

IsDigit(c) == c >= 48 /\ c <= 57

\* the position of the first character from i on that is no digit
SkipDigits(s, i) == FirstNotIn(s, i, 48..57)

\* 18446744073709551615, u64::MAX
MaxU64Digits ==
    <<49, 56, 52, 52, 54, 55, 52, 52, 48, 55, 51, 55, 48, 57, 53, 53, 49, 54, 49, 53>>
\* 9223372036854775808, the magnitude of i64::MIN
MinI64Digits ==
    <<57, 50, 50, 51, 51, 55, 50, 48, 51, 54, 56, 53, 52, 55, 55, 53, 56, 48, 56>>

\* the decimal number written s[lo..hi], without leading zero, is at most
\* the number written by limit
NumberAtMost(s, lo, hi, limit) ==
    LET n == hi - lo + 1
        diff == {k \in 1..n : s[lo + k - 1] # limit[k]}
    IN  \/ n < Len(limit)
        \/ /\ n = Len(limit)
           /\ (diff = {} \/ s[lo + Min(diff) - 1] < limit[Min(diff)])

\* Parser::parse_exponent from the position e after 'e' or 'E' and a sign:
\* at least one digit
parse_exponent_digits(e, end) ==
    IF end = e THEN ParserError ELSE Parsed(JsonValue("F64"), end)

\* Parser::parse_exponent at the 'e' or 'E' s[m]
parse_exponent(s, m) ==
    parse_exponent_digits(IF ch_or_null(s, m + 1) \in {43, 45} THEN m + 2 ELSE m + 1,
                          SkipDigits(s, IF ch_or_null(s, m + 1) \in {43, 45}
                                        THEN m + 2 ELSE m + 1))

\* Parser::parse_decimal from the position d after '.', the digits ending
\* before m: at least one digit, then an exponent may follow
parse_decimal(s, d, m) ==
    IF m = d THEN ParserError
    ELSE IF ch_or_null(s, m) \in {101, 69} THEN parse_exponent(s, m)
    ELSE Parsed(JsonValue("F64"), m)

\* Parser::parse_number after parse_u64 has read s[j..k-1]: 0 alone or a
\* number without leading zero that fits u64; then a fraction or an
\* exponent, or else the integer, which must fit i64 when negative
parse_number_after(s, j, k, neg) ==
    IF s[j] = 48 /\ IsDigit(ch_or_null(s, k)) THEN ParserError
    ELSE IF ~NumberAtMost(s, j, k - 1, MaxU64Digits) THEN ParserError
    ELSE IF ch_or_null(s, k) = 46 THEN parse_decimal(s, k + 1, SkipDigits(s, k + 1))
    ELSE IF ch_or_null(s, k) \in {101, 69} THEN parse_exponent(s, k)
    ELSE IF neg /\ ~NumberAtMost(s, j, k - 1, MinI64Digits) THEN ParserError
    ELSE Parsed(JsonValue(IF neg THEN "I64" ELSE "U64"), k)

\* Parser::parse_u64 at s[j]: a digit must come first
parse_u64(s, j, neg) ==
    IF ~IsDigit(ch_or_null(s, j)) THEN ParserError
    ELSE parse_number_after(s, j, IF s[j] = 48 THEN j + 1 ELSE SkipDigits(s, j), neg)

\* Parser::parse_number at s[i]: an optional '-', then the number
parse_number(s, i) ==
    parse_u64(s, IF ch_or_null(s, i) = 45 THEN i + 1 ELSE i, ch_or_null(s, i) = 45)

\* the value of a hexadecimal digit, 16 for any other character
HexValue(c) ==
    IF c >= 48 /\ c <= 57 THEN c - 48
    ELSE IF c >= 97 /\ c <= 102 THEN c - 87
    ELSE IF c >= 65 /\ c <= 70 THEN c - 55
    ELSE 16

\* Parser::decode_hex_escape on the four characters s[i..i+3], none of them
\* after hi: the number they write, or an error
decode_hex_escape(s, i, hi) ==
    IF i + 3 <= hi /\ \A k \in i..(i + 3) : HexValue(s[k]) < 16
    THEN [ok |-> TRUE,
          n |-> HexValue(s[i]) * 4096 + HexValue(s[i + 1]) * 256
                + HexValue(s[i + 2]) * 16 + HexValue(s[i + 3])]
    ELSE [ok |-> FALSE, n |-> 0]

\* String::push(char): the UTF-8 encoding of a code point
Utf8Encode(cp) ==
    IF cp < 128 THEN <<cp>>
    ELSE IF cp < 2048 THEN <<192 + (cp \div 64), 128 + (cp % 64)>>
    ELSE IF cp < 65536
    THEN <<224 + (cp \div 4096), 128 + ((cp \div 64) % 64), 128 + (cp % 64)>>
    ELSE <<240 + (cp \div 262144), 128 + ((cp \div 4096) % 64),
           128 + ((cp \div 64) % 64), 128 + (cp % 64)>>

\* a piece of string content: Ok with the text it stands for and the
\* position after it, or an error
Piece(v, n) == [ok |-> TRUE, val |-> v, next |-> n]
BadPiece == [ok |-> FALSE, val |-> <<>>, next |-> 0]

\* a leading surrogate n1 written at the backslash s[b]: "\u" and a
\* trailing surrogate n2 must follow; the pair is one code point
surrogate_pair(s, b, hi, n1, n2) ==
    IF /\ b + 7 <= hi /\ s[b + 6] = 92 /\ s[b + 7] = 117
       /\ n2.ok /\ n2.n >= 56320 /\ n2.n <= 57343
    THEN Piece(Utf8Encode(65536 + (n1.n - 55296) * 1024 + (n2.n - 56320)), b + 12)
    ELSE BadPiece

\* the escape \uXXXX at the backslash s[b], n1 its number
hex_escape(s, b, hi, n1) ==
    IF ~n1.ok THEN BadPiece
    ELSE IF n1.n >= 56320 /\ n1.n <= 57343 THEN BadPiece
    ELSE IF n1.n >= 55296 /\ n1.n <= 56319
    THEN surrogate_pair(s, b, hi, n1, decode_hex_escape(s, b + 8, hi))
    ELSE Piece(Utf8Encode(n1.n), b + 6)

\* the escape at the backslash s[b] with the character c after it, as
\* parse_str resolves it: \" \\ \/ \b \f \n \r \t \uXXXX; any other
\* character is an error
escape(s, b, hi, c) ==
    IF c \in {34, 92, 47} THEN Piece(<<c>>, b + 2)
    ELSE IF c = 98 THEN Piece(<<8>>, b + 2)
    ELSE IF c = 102 THEN Piece(<<12>>, b + 2)
    ELSE IF c = 110 THEN Piece(<<10>>, b + 2)
    ELSE IF c = 114 THEN Piece(<<13>>, b + 2)
    ELSE IF c = 116 THEN Piece(<<9>>, b + 2)
    ELSE IF c = 117 THEN hex_escape(s, b, hi, decode_hex_escape(s, b + 2, hi))
    ELSE BadPiece

\* the text before an escape, the escape and the text after it put together
Pieces(before, unit, after) ==
    IF unit.ok /\ after.ok THEN [ok |-> TRUE, val |-> before \o unit.val \o after.val]
    ELSE [ok |-> FALSE, val |-> <<>>]

RECURSIVE Unescape(_, _, _)

\* the string content s[lo..hi] whose first backslash is s[b]
UnescapeAt(s, lo, hi, b, unit) ==
    Pieces(SubSeq(s, lo, b - 1), unit,
           IF unit.ok THEN Unescape(s, unit.next, hi) ELSE [ok |-> FALSE, val |-> <<>>])

\* the string content s[lo..hi] with its escapes resolved
Unescape(s, lo, hi) ==
    IF \A k \in lo..hi : s[k] # 92 THEN [ok |-> TRUE, val |-> SubSeq(s, lo, hi)]
    ELSE UnescapeAt(s, lo, hi, FirstNotIn(s, lo, (0..255) \ {92}),
                    escape(s, FirstNotIn(s, lo, (0..255) \ {92}), hi,
                           ch_or_null(s, FirstNotIn(s, lo, (0..255) \ {92}) + 1)))

\* the character s[j] of a string content that starts at lo follows an odd
\* number of backslashes, so the last of them escapes it
Escaped(s, lo, j) ==
    \E r \in 1..(j - lo) :
        /\ r % 2 = 1
        /\ \A k \in 1..r : s[j - k] = 92
        /\ (j - r = lo \/ s[j - r - 1] # 92)

\* the string read: its content with the escapes resolved, and the position
\* after the closing quote
string_value(content, next) ==
    IF content.ok THEN Parsed(JsonString(content.val), next) ELSE ParserError

\* the string that opens at the quote s[i] and closes at the least of the
\* positions quotes
string_until(s, i, quotes) ==
    IF quotes = {} THEN ParserError
    ELSE string_value(Unescape(s, i + 1, Min(quotes) - 1), Min(quotes) + 1)

\* Parser::parse_str at the opening quote s[i]: the string ends at the first
\* quote that no backslash escapes
parse_str(s, i) ==
    string_until(s, i, {j \in (i + 1)..Len(s) : s[j] = 34 /\ ~Escaped(s, i + 1, j)})

RECURSIVE parse_value(_, _)
RECURSIVE parse_array(_, _, _)
RECURSIVE parse_object(_, _, _, _)

\* Parser::parse_value at the character s[i] with the values of an array or
\* an object read up to the closing bracket (Builder::build_value)
parse_value(s, i) ==
    IF i > Len(s) THEN ParserError
    ELSE IF s[i] = 110
    THEN IF MatchAt(s, i, <<110, 117, 108, 108>>)
         THEN Parsed(JsonValue("Null"), i + 4) ELSE ParserError
    ELSE IF s[i] = 116
    THEN IF MatchAt(s, i, <<116, 114, 117, 101>>)
         THEN Parsed(JsonValue("Boolean"), i + 4) ELSE ParserError
    ELSE IF s[i] = 102
    THEN IF MatchAt(s, i, <<102, 97, 108, 115, 101>>)
         THEN Parsed(JsonValue("Boolean"), i + 5) ELSE ParserError
    ELSE IF IsDigit(s[i]) \/ s[i] = 45 THEN parse_number(s, i)
    ELSE IF s[i] = 34 THEN parse_str(s, i)
    ELSE IF s[i] = 91 THEN parse_array(s, parse_whitespace(s, i + 1), TRUE)
    ELSE IF s[i] = 123 THEN parse_object(s, parse_whitespace(s, i + 1), TRUE, <<>>)
    ELSE ParserError

\* Parser::parse_array_comma_or_end at s[j], after a value of the array: a
\* ',' and a further value, or the closing ']'
parse_array_comma_or_end(s, j) ==
    IF ch_or_null(s, j) = 44 THEN parse_array(s, parse_whitespace(s, j + 1), FALSE)
    ELSE IF ch_or_null(s, j) = 93 THEN Parsed(JsonValue("Array"), j + 1)
    ELSE ParserError

\* the array after its value v
array_after(s, v) ==
    IF v.ok THEN parse_array_comma_or_end(s, parse_whitespace(s, v.next)) ELSE ParserError

\* Parser::parse_array (Builder::build_array): i is the position after '['
\* or after a ',' and the whitespace behind it; ']' may not follow a ','
parse_array(s, i, first) ==
    IF ch_or_null(s, i) = 93
    THEN IF first THEN Parsed(JsonValue("Array"), i + 1) ELSE ParserError
    ELSE array_after(s, parse_value(s, i))

\* Parser::parse_object_end at s[j], after a value of the object, fields the
\* pairs read: a ',' and a further pair, or the closing '}'
parse_object_end(s, j, fields) ==
    IF ch_or_null(s, j) = 44 THEN parse_object(s, parse_whitespace(s, j + 1), FALSE, fields)
    ELSE IF ch_or_null(s, j) = 125 THEN Parsed(JsonObject(fields), j + 1)
    ELSE ParserError

\* the object after the value v of the key key
object_after_value(s, key, v, fields) ==
    IF v.ok
    THEN parse_object_end(s, parse_whitespace(s, v.next),
                          Append(fields, [key |-> key.json.str, value |-> v.json]))
    ELSE ParserError

\* the object from the position colon after the key key and whitespace: a
\* ':' and a value
object_after_key(s, key, colon, fields) ==
    IF ch_or_null(s, colon) = 58
    THEN object_after_value(s, key, parse_value(s, parse_whitespace(s, colon + 1)), fields)
    ELSE ParserError

\* the object after its key key
object_key(s, key, fields) ==
    IF key.ok THEN object_after_key(s, key, parse_whitespace(s, key.next), fields)
    ELSE ParserError

\* Parser::parse_object (Builder::build_object): i is the position after
\* '{' or after a ',' and the whitespace behind it, fields the pairs read
\* so far; a key is a string, and '}' may not follow a ','
parse_object(s, i, first, fields) ==
    IF ch_or_null(s, i) = 125
    THEN IF first THEN Parsed(JsonObject(fields), i + 1) ELSE ParserError
    ELSE IF ch_or_null(s, i) # 34 THEN ParserError
    ELSE object_key(s, parse_str(s, i), fields)

\* Parser and Builder after the value v: only whitespace may follow
no_trailing_characters(s, v) ==
    IF v.ok /\ parse_whitespace(s, v.next) = Len(s) + 1 THEN v ELSE ParserError

\* Json::from_str: one value, whitespace around it, nothing after it
Json_from_str(s) == no_trailing_characters(s, parse_value(s, parse_whitespace(s, 1)))

\* the value of the last of the pairs at the positions at, which must be a
\* String
last_string(fields, at) ==
    IF at = {} THEN [ok |-> FALSE, val |-> <<>>]
    ELSE IF fields[Max(at)].value.type # "String" THEN [ok |-> FALSE, val |-> <<>>]
    ELSE [ok |-> TRUE, val |-> fields[Max(at)].value.str]

\* Decoder::read_struct_field and read_str: the value of the last pair of
\* the object with the key name, which must be a String
read_struct_field(fields, name) ==
    last_string(fields, {k \in 1..Len(fields) : fields[k].key = name})

\* Claims' Decodable::decode after both fields were read
read_struct(sub, company) ==
    IF sub.ok /\ company.ok
    THEN [ok |-> TRUE, value |-> [sub |-> sub.val, company |-> company.val]]
    ELSE [ok |-> FALSE, value |-> NoClaims]

\* Claims' Decodable::decode on the Json value parsed: an Object with the
\* fields sub and company
decode_claims(v) ==
    IF v.ok /\ v.json.type = "Object"
    THEN read_struct(read_struct_field(v.json.fields, <<115, 117, 98>>),
                     read_struct_field(v.json.fields, <<99, 111, 109, 112, 97, 110, 121>>))
    ELSE [ok |-> FALSE, value |-> NoClaims]

\* json::decode::<Claims>(&s)
JsonDecode(s) == decode_claims(Json_from_str(s))

(***************************************************************************)
(* impl<T> Part for T where T: Encodable + Decodable                       *)
(***************************************************************************)
\* the mutant of Part_to_base64: the JSON text is written without escaping
Part_to_base64_NoEscape(c) ==
    ToBase64(JsonOpen \o c.sub \o JsonMid \o c.company \o JsonClose)

Part_to_base64(c) == ToBase64(JsonEncode(c))

\* try!'s conversion of a collaborator's error into errors::Error (the
\* From impls of the errors module, which name the wrapped failure)
Error_from(cause) ==
    CASE cause = "FromBase64Error" -> Err("Base64DecodeError")
      [] cause = "FromUtf8Error" -> Err("Utf8DecodeError")
      [] cause = "DecoderError" -> Err("JsonDecodeError")

\* Ok(try!(json::decode(&s)))
from_json(j) == IF j.ok THEN Ok(j.value) ELSE Error_from("DecoderError")

\* the rest of from_base64 on the result of encoded.from_base64()
from_bytes(decoded) ==
    IF ~decoded.ok THEN Error_from("FromBase64Error")
    ELSE IF ~FromUtf8(decoded.bytes) THEN Error_from("FromUtf8Error")
    ELSE from_json(JsonDecode(decoded.bytes))

Part_from_base64(encoded) == from_bytes(FromBase64(encoded))

(***************************************************************************)
(* struct Header and impl Part for Header                                  *)
(***************************************************************************)
Header_new(a) == [typ |-> "JWT", alg |-> a]

\* eyJ0eXAiOiJKV1QiLCJhbGciOiJIUzI1NiJ9
LitHS256 ==
    <<101, 121, 74, 48, 101, 88, 65, 105, 79, 105, 74, 75, 86, 49, 81, 105, 76,
      67, 74, 104, 98, 71, 99, 105, 79, 105, 74, 73, 85, 122, 73, 49, 78, 105,
      74, 57>>
\* eyJ0eXAiOiJKV1QiLCJhbGciOiJIUzM4NCJ9
LitHS384 ==
    <<101, 121, 74, 48, 101, 88, 65, 105, 79, 105, 74, 75, 86, 49, 81, 105, 76,
      67, 74, 104, 98, 71, 99, 105, 79, 105, 74, 73, 85, 122, 77, 52, 78, 67,
      74, 57>>
\* eyJ0eXAiOiJKV1QiLCJhbGciOiJIUzUxMiJ9
LitHS512 ==
    <<101, 121, 74, 48, 101, 88, 65, 105, 79, 105, 74, 75, 86, 49, 81, 105, 76,
      67, 74, 104, 98, 71, 99, 105, 79, 105, 74, 73, 85, 122, 85, 120, 77, 105,
      74, 57>>

NoHeader == [typ |-> "", alg |-> ""]

\* the mutant of Header_from_base64: two arms of the match are exchanged
Header_from_base64_Swapped(encoded) ==
    IF encoded = LitHS256 THEN [ok |-> TRUE, header |-> Header_new("HS384")]
    ELSE IF encoded = LitHS384 THEN [ok |-> TRUE, header |-> Header_new("HS256")]
    ELSE IF encoded = LitHS512 THEN [ok |-> TRUE, header |-> Header_new("HS512")]
    ELSE [ok |-> FALSE, header |-> NoHeader]

\* Header::from_base64; not ok is Err(Error::InvalidToken)
Header_from_base64(encoded) ==
    IF encoded = LitHS256 THEN [ok |-> TRUE, header |-> Header_new("HS256")]
    ELSE IF encoded = LitHS384 THEN [ok |-> TRUE, header |-> Header_new("HS384")]
    ELSE IF encoded = LitHS512 THEN [ok |-> TRUE, header |-> Header_new("HS512")]
    ELSE [ok |-> FALSE, header |-> NoHeader]

\* the mutant of Header_to_base64: HS384 is given the literal of HS256
Header_to_base64_Same(h) ==
    CASE h.alg = "HS256" -> LitHS256
      [] h.alg = "HS384" -> LitHS256
      [] h.alg = "HS512" -> LitHS512

\* Header::to_base64
Header_to_base64(h) ==
    CASE h.alg = "HS256" -> LitHS256
      [] h.alg = "HS384" -> LitHS384
      [] h.alg = "HS512" -> LitHS512

(***************************************************************************)
(* The crypto crate: crypto::sha2 and crypto::hmac.                        *)
(*                                                                         *)
(* A word of SHA-256 is a pair of 16-bit limbs, a word of SHA-384 and      *)
(* SHA-512 four limbs, the most significant limb first; the operators on   *)
(* words tell the two widths apart by the number of limbs.                 *)
(***************************************************************************)
\* the bitwise and of two n-bit values
RECURSIVE AndBits(_, _, _)
AndBits(a, b, n) ==
    IF n = 0 THEN 0 ELSE (a % 2) * (b % 2) + 2 * AndBits(a \div 2, b \div 2, n - 1)

\* AndByte[a + 1][b + 1] is the bitwise and of the bytes a and b
AndByte ==
    SubSeq([a \in 1..256 |->
              SubSeq([b \in 1..256 |-> AndBits(a - 1, b - 1, 8)], 1, 256)], 1, 256)

\* XorByte[a + 1][b + 1] is the bitwise exclusive or of the bytes a and b
XorByte ==
    SubSeq([a \in 1..256 |->
              SubSeq([b \in 1..256 |-> (a - 1) + (b - 1) - 2 * AndBits(a - 1, b - 1, 8)],
                     1, 256)], 1, 256)

\* a bitwise operation on 16-bit values by the table of its values on bytes
Lookup16(table, a, b) ==
    table[(a \div 256) + 1][(b \div 256) + 1] * 256 + table[(a % 256) + 1][(b % 256) + 1]

\* a bitwise operation on words, limb by limb
BitW(table, x, y) ==
    IF Len(x) = 2
    THEN << Lookup16(table, x[1], y[1]), Lookup16(table, x[2], y[2]) >>
    ELSE << Lookup16(table, x[1], y[1]), Lookup16(table, x[2], y[2]),
            Lookup16(table, x[3], y[3]), Lookup16(table, x[4], y[4]) >>

AndW(x, y) == BitW(AndByte, x, y)
XorW(x, y) == BitW(XorByte, x, y)

NotW(x) ==
    IF Len(x) = 2 THEN << 65535 - x[1], 65535 - x[2] >>
    ELSE << 65535 - x[1], 65535 - x[2], 65535 - x[3], 65535 - x[4] >>

\* the limb-wise sum of two words; the limbs of the result may exceed 16 bits
PlusW(x, y) ==
    IF Len(x) = 2 THEN << x[1] + y[1], x[2] + y[2] >>
    ELSE << x[1] + y[1], x[2] + y[2], x[3] + y[3], x[4] + y[4] >>

\* the carries of a limb-wise sum propagated: the sum modulo the word size
\* (wrapping_add)
NormW(s) ==
    IF Len(s) = 2 THEN << (s[1] + (s[2] \div 65536)) % 65536, s[2] % 65536 >>
    ELSE LET c3 == s[3] + (s[4] \div 65536)
             c2 == s[2] + (c3 \div 65536)
             c1 == s[1] + (c2 \div 65536)
         IN  << c1 % 65536, c2 % 65536, c3 % 65536, s[4] % 65536 >>

\* the limbs a, b, ... of a word rotated right by r < 16 bits, p = 2^r
RotrLimbs2(a, b, p) ==
    << (a \div p) + (b % p) * (65536 \div p), (b \div p) + (a % p) * (65536 \div p) >>
RotrLimbs4(a, b, c, d, p) ==
    << (a \div p) + (d % p) * (65536 \div p), (b \div p) + (a % p) * (65536 \div p),
       (c \div p) + (b % p) * (65536 \div p), (d \div p) + (c % p) * (65536 \div p) >>

\* rotate_right(n): whole limbs first, then the bits left
RotrW(x, n) ==
    IF Len(x) = 2
    THEN RotrLimbs2(x[((2 - (n \div 16)) % 2) + 1], x[((3 - (n \div 16)) % 2) + 1],
                    2 ^ (n % 16))
    ELSE RotrLimbs4(x[((4 - (n \div 16)) % 4) + 1], x[((5 - (n \div 16)) % 4) + 1],
                    x[((6 - (n \div 16)) % 4) + 1], x[((7 - (n \div 16)) % 4) + 1],
                    2 ^ (n % 16))

\* the word r without the bits above the top 16 - n bits of its first limb,
\* p = 2^n
ClearTop(r, p) ==
    IF Len(r) = 2 THEN << r[1] % (65536 \div p), r[2] >>
    ELSE << r[1] % (65536 \div p), r[2], r[3], r[4] >>

\* x >> n, for n < 16: the rotation without the bits that wrap around
ShrW(x, n) == ClearTop(RotrW(x, n), 2 ^ n)

Xor3(a, b, c) == XorW(XorW(a, b), c)

\* (x & y) ^ (!x & z)
Ch(x, y, z) == XorW(AndW(x, y), AndW(NotW(x), z))

\* (x & y) ^ (x & z) ^ (y & z)
Maj(x, y, z) == Xor3(AndW(x, y), AndW(x, z), AndW(y, z))

\* the xor of three rotations of x, and of two rotations and a shift
SigmaRot(x, n) == Xor3(RotrW(x, n[1]), RotrW(x, n[2]), RotrW(x, n[3]))
SigmaShr(x, n) == Xor3(RotrW(x, n[1]), RotrW(x, n[2]), ShrW(x, n[3]))

BigSigma0(x) == SigmaRot(x, IF Len(x) = 2 THEN <<2, 13, 22>> ELSE <<28, 34, 39>>)
BigSigma1(x) == SigmaRot(x, IF Len(x) = 2 THEN <<6, 11, 25>> ELSE <<14, 18, 41>>)
SmallSigma0(x) == SigmaShr(x, IF Len(x) = 2 THEN <<7, 18, 3>> ELSE <<1, 8, 7>>)
SmallSigma1(x) == SigmaShr(x, IF Len(x) = 2 THEN <<17, 19, 10>> ELSE <<19, 61, 6>>)

\* the round constants of SHA-256
K256 ==
    <<<<17034, 12184>>, <<28983, 17553>>, <<46528, 64463>>, <<59829, 56229>>,
      <<14678, 49755>>, <<23025, 4593>>, <<37439, 33444>>, <<43804, 24277>>,
      <<55303, 43672>>, <<4739, 23297>>, <<9265, 34238>>, <<21772, 32195>>,
      <<29374, 23924>>, <<32990, 45566>>, <<39900, 1703>>, <<49563, 61812>>,
      <<58523, 27073>>, <<61374, 18310>>, <<4033, 40390>>, <<9228, 41420>>,
      <<11753, 11375>>, <<19060, 33962>>, <<23728, 43484>>, <<30457, 35034>>,
      <<38974, 20818>>, <<43057, 50797>>, <<45059, 10184>>, <<48985, 32711>>,
      <<50912, 3059>>, <<54695, 37191>>, <<1738, 25425>>, <<5161, 10599>>,
      <<10167, 2693>>, <<11803, 8504>>, <<19756, 28156>>, <<21304, 3347>>,
      <<25866, 29524>>, <<30314, 2747>>, <<33218, 51502>>, <<37490, 11397>>,
      <<41663, 59553>>, <<43034, 26187>>, <<49739, 35696>>, <<51052, 20899>>,
      <<53650, 59417>>, <<54937, 1572>>, <<62478, 13701>>, <<4202, 41072>>,
      <<6564, 49430>>, <<7735, 27656>>, <<10056, 30540>>, <<13488, 48309>>,
      <<14620, 3251>>, <<20184, 43594>>, <<23452, 51791>>, <<26670, 28659>>,
      <<29839, 33518>>, <<30885, 25455>>, <<33992, 30740>>, <<36039, 520>>,
      <<37054, 65530>>, <<42064, 27883>>, <<48889, 41975>>, <<50801, 30962>>>>

\* the initial hash value of SHA-256
H256 ==
    <<<<27145, 58983>>, <<47975, 44677>>, <<15470, 62322>>, <<42319, 62778>>,
      <<20750, 21119>>, <<39685, 26764>>, <<8067, 55723>>, <<23520, 52505>>>>

\* the round constants of SHA-512 and SHA-384
K512 ==
    <<<<17034, 12184, 55080, 44578>>, <<28983, 17553, 9199, 26061>>,
      <<46528, 64463, 60493, 15151>>, <<59829, 56229, 33161, 56252>>,
      <<14678, 49755, 62280, 46392>>, <<23025, 4593, 46597, 53273>>,
      <<37439, 33444, 44825, 20379>>, <<43804, 24277, 55917, 33048>>,
      <<55303, 43672, 41731, 578>>, <<4739, 23297, 17776, 28606>>,
      <<9265, 34238, 20196, 45708>>, <<21772, 32195, 54783, 46306>>,
      <<29374, 23924, 62075, 35183>>, <<32990, 45566, 15126, 38577>>,
      <<39900, 1703, 9671, 4661>>, <<49563, 61812, 53097, 9876>>,
      <<58523, 27073, 40689, 19154>>, <<61374, 18310, 14415, 9699>>,
      <<4033, 40390, 35724, 54709>>, <<9228, 41420, 30636, 40037>>,
      <<11753, 11375, 22827, 629>>, <<19060, 33962, 28326, 58499>>,
      <<23728, 43484, 48449, 64468>>, <<30457, 35034, 33553, 21429>>,
      <<38974, 20818, 61030, 57259>>, <<43057, 50797, 11700, 12816>>,
      <<45059, 10184, 39163, 8511>>, <<48985, 32711, 48879, 3812>>,
      <<50912, 3059, 15784, 36802>>, <<54695, 37191, 37642, 42789>>,
      <<1738, 25425, 57347, 33391>>, <<5161, 10599, 2574, 28272>>,
      <<10167, 2693, 18130, 12284>>, <<11803, 8504, 23590, 51494>>,
      <<19756, 28156, 23236, 10989>>, <<21304, 3347, 40341, 46047>>,
      <<25866, 29524, 35759, 25566>>, <<30314, 2747, 15479, 45736>>,
      <<33218, 51502, 18413, 44774>>, <<37490, 11397, 5250, 13627>>,
      <<41663, 59553, 19697, 868>>, <<43034, 26187, 48194, 12289>>,
      <<49739, 35696, 53496, 38801>>, <<51052, 20899, 1620, 48688>>,
      <<53650, 59417, 55023, 21016>>, <<54937, 1572, 21861, 43280>>,
      <<62478, 13701, 22385, 8234>>, <<4202, 41072, 12987, 53688>>,
      <<6564, 49430, 47314, 53448>>, <<7735, 27656, 20801, 43859>>,
      <<10056, 30540, 57230, 60313>>, <<13488, 48309, 57755, 18600>>,
      <<14620, 3251, 50633, 23139>>, <<20184, 43594, 58177, 35531>>,
      <<23452, 51791, 30563, 58227>>, <<26670, 28659, 54962, 47267>>,
      <<29839, 33518, 24047, 45820>>, <<30885, 25455, 17175, 12128>>,
      <<33992, 30740, 41456, 43890>>, <<36039, 520, 6756, 14828>>,
      <<37054, 65530, 9059, 7720>>, <<42064, 27883, 56962, 48617>>,
      <<48889, 41975, 45766, 30997>>, <<50801, 30962, 58226, 21291>>,
      <<51751, 16078, 59942, 24988>>, <<53638, 47303, 8640, 49671>>,
      <<60122, 32214, 52704, 60190>>, <<62845, 20351, 61038, 53624>>,
      <<1776, 26538, 29207, 28602>>, <<2659, 32197, 41672, 39078>>,
      <<4415, 38916, 48889, 3502>>, <<7025, 2869, 4892, 18203>>,
      <<10459, 30709, 8964, 32132>>, <<13002, 43899, 16583, 9363>>,
      <<15518, 48650, 5577, 48828>>, <<17181, 26564, 39952, 3404>>,
      <<19653, 54462, 52030, 17078>>, <<22911, 10652, 64613, 32298>>,
      <<24523, 28587, 15062, 64236>>, <<27716, 6540, 19015, 22551>>>>

\* the initial hash value of SHA-512
H512 ==
    <<<<27145, 58983, 62396, 51464>>, <<47975, 44677, 33994, 42811>>,
      <<15470, 62322, 65172, 63531>>, <<42319, 62778, 24349, 14065>>,
      <<20750, 21119, 44518, 33489>>, <<39685, 26764, 11070, 27679>>,
      <<8067, 55723, 64321, 48491>>, <<23520, 52505, 4990, 8569>>>>

\* the initial hash value of SHA-384
H384 ==
    <<<<52155, 40285, 49413, 40664>>, <<25242, 10538, 13948, 54535>>,
      <<37209, 346, 12400, 56599>>, <<5423, 60632, 63246, 22841>>,
      <<26419, 9831, 65472, 2865>>, <<36532, 19079, 26712, 5393>>,
      <<56076, 11789, 25849, 36775>>, <<18357, 18461, 48890, 20388>>>>

\* the word t of the message schedule w, t > 16
ScheduleWord(w, t) ==
    NormW(PlusW(PlusW(SmallSigma1(w[t - 2]), w[t - 7]),
                PlusW(SmallSigma0(w[t - 15]), w[t - 16])))

\* the message schedule: the 16 words of a block extended to n words
RECURSIVE Schedule(_, _)
Schedule(w, n) ==
    IF Len(w) >= n THEN w ELSE Schedule(Append(w, ScheduleWord(w, Len(w) + 1)), n)

\* the sums t1 and t2 of a round on the working variables v = <<a, ..., h>>
RoundT1(v, kt, wt) ==
    PlusW(PlusW(PlusW(v[8], BigSigma1(v[5])), PlusW(Ch(v[5], v[6], v[7]), kt)), wt)
RoundT2(v) == PlusW(BigSigma0(v[1]), Maj(v[1], v[2], v[3]))

\* the working variables after a round
Round(v, t1, t2) ==
    << NormW(PlusW(t1, t2)), v[1], v[2], v[3], NormW(PlusW(v[4], t1)), v[5], v[6], v[7] >>

\* the rounds t .. Len(k) with the round constants k
RECURSIVE Rounds(_, _, _, _)
Rounds(v, w, k, t) ==
    IF t > Len(k) \/ Len(v) # 8 THEN v
    ELSE Rounds(Round(v, RoundT1(v, k[t], w[t]), RoundT2(v)), w, k, t + 1)

\* the 16 big-endian words, of n limbs each, of the block of m after offset
\* off
BlockWords(m, off, n) ==
    SubSeq([j \in 1..16 |->
              SubSeq([i \in 1..n |-> m[off + 2 * n * (j - 1) + 2 * i - 1] * 256
                                     + m[off + 2 * n * (j - 1) + 2 * i]], 1, n)],
           1, 16)

\* the word-wise sum of the hash value hs and the working variables v
AddWords(hs, v) == SubSeq([i \in 1..8 |-> NormW(PlusW(hs[i], v[i]))], 1, 8)

\* the hash value hs after the block of m at offset off
Compress(hs, m, off, k) ==
    AddWords(hs, Rounds(hs, Schedule(BlockWords(m, off, Len(hs[1])), Len(k)), k, 1))

\* the message followed by the byte 0x80, zero bytes and its length in bits
\* as a big-endian number of lenBytes bytes: a whole number of blocks
Pad(m, blockBytes, lenBytes) ==
    m \o <<128>>
      \o [i \in 1..((((2 * blockBytes - 1 - lenBytes) - (Len(m) % blockBytes)) % blockBytes)
                     + lenBytes - 4) |-> 0]
      \o << ((Len(m) * 8) \div 16777216) % 256, ((Len(m) * 8) \div 65536) % 256,
            ((Len(m) * 8) \div 256) % 256, (Len(m) * 8) % 256 >>

\* the hash value hs after the blocks of m from offset off on
RECURSIVE Blocks(_, _, _, _)
Blocks(hs, m, off, k) ==
    IF off >= Len(m) \/ Len(hs) # 8 THEN hs
    ELSE Blocks(Compress(hs, m, off, k), m, off + 32 * Len(hs[1]), k)

\* the first n bytes of the hash value hs
HashBytes(hs, n) ==
    SubSeq([i \in 1..n |->
              IF i % 2 = 1
              THEN hs[((i - 1) \div (2 * Len(hs[1]))) + 1][(((i - 1) \div 2) % Len(hs[1])) + 1]
                     \div 256
              ELSE hs[((i - 1) \div (2 * Len(hs[1]))) + 1][(((i - 1) \div 2) % Len(hs[1])) + 1]
                     % 256], 1, n)

\* Sha256::new(), Sha384::new(), Sha512::new(): the initial hash value, the
\* round constants, the bytes of a block, of the length field of the
\* padding and of the output
Sha256 == [h |-> H256, k |-> K256, block |-> 64, length |-> 8, output |-> 32]
Sha384 == [h |-> H384, k |-> K512, block |-> 128, length |-> 16, output |-> 48]
Sha512 == [h |-> H512, k |-> K512, block |-> 128, length |-> 16, output |-> 64]

\* Digest::input(m) followed by Digest::result
Digest(d, m) == HashBytes(Blocks(d.h, Pad(m, d.block, d.length), 0, d.k), d.output)

\* the bytes of k followed by zero bytes up to n bytes
ZeroPad(k, n) == SubSeq([i \in 1..n |-> IF i <= Len(k) THEN k[i] ELSE 0], 1, n)

\* hmac's expand_key: a key longer than a block is hashed; the key is then
\* filled with zero bytes to a block
ExpandKey(d, key) == ZeroPad(IF Len(key) <= d.block THEN key ELSE Digest(d, key), d.block)

\* hmac's derive_key: every byte of the expanded key xor-ed with mask
DeriveKey(k, mask) == SubSeq([i \in 1..Len(k) |-> XorByte[k[i] + 1][mask + 1]], 1, Len(k))

\* Hmac::input(data) and Hmac::result on the expanded key k: the digest of
\* the key xor 0x5c followed by the digest of the key xor 0x36 followed by
\* the data
HmacResult(d, k, data) ==
    Digest(d, DeriveKey(k, 92) \o Digest(d, DeriveKey(k, 54) \o data))

\* Hmac::new(digest, key), input(data), result().code()
HmacCode(d, data, key) == HmacResult(d, ExpandKey(d, key), data)

(***************************************************************************)
(* fn sign and fn verify                                                   *)
(***************************************************************************)
\* fn crypt<D: Digest>(digest: D, data: &str, secret: &[u8]) -> String
crypt(digest, data, key) == ToBase64(HmacCode(digest, data, key))

\* fn sign(data: &str, secret: &[u8], algorithm: Algorithm) -> String
sign(data, key, alg) ==
    CASE alg = "HS256" -> crypt(Sha256, data, key)
      [] alg = "HS384" -> crypt(Sha384, data, key)
      [] alg = "HS512" -> crypt(Sha512, data, key)

\* the mutant of fixed_time_eq: the lengths are not compared, only the
\* bytes of the common prefix
fixed_time_eq_Prefix(lhs, rhs) ==
    \A i \in 1..(IF Len(lhs) < Len(rhs) THEN Len(lhs) ELSE Len(rhs)) : lhs[i] = rhs[i]

\* crypto::util::fixed_time_eq as verify uses it: false when the lengths
\* differ, else true exactly when no byte pair differs
fixed_time_eq(lhs, rhs) ==
    IF Len(lhs) # Len(rhs) THEN FALSE
    ELSE \A i \in 1..Len(lhs) : lhs[i] = rhs[i]

\* the mutant of verify: every signature is accepted
verify_Always(signature, data, key, alg) == TRUE

\* fn verify(signature: &str, data: &str, secret: &[u8], algorithm) -> bool
verify(signature, data, key, alg) == fixed_time_eq(signature, sign(data, key, alg))

(***************************************************************************)
(* pub fn encode                                                           *)
(***************************************************************************)
\* Both to_base64 calls are Ok for a header and for a record of strings,
\* so encode is Ok(token); the operator is the token.
encode(c, key, alg) ==
    LET encoded_header == Header_to_base64(Header_new(alg))
        encoded_claims == Part_to_base64(c)
        payload == JoinDot(encoded_header, encoded_claims)
        signature == sign(payload, key, alg)
    IN  JoinDot(payload, signature)

(***************************************************************************)
(* pub fn decode                                                           *)
(***************************************************************************)
\* positions of '.' in s
DotsOf(s) == {i \in 1..Len(s) : s[i] = Dot}

\* s.rsplitn(2, '.'): the items of the iterator in order, the text after
\* the last '.' first, then the text before it; one item when s has no '.'
rsplitn2(s) ==
    IF DotsOf(s) = {} THEN << s >>
    ELSE LET i == Max(DotsOf(s))
         IN  << SubSeq(s, i + 1, Len(s)), SubSeq(s, 1, i - 1) >>

\* expect_two!: (Some(first), Some(second), None), else InvalidToken
expect_two(it) ==
    IF Len(it) = 2 THEN [ok |-> TRUE, first |-> it[1], second |-> it[2]]
    ELSE [ok |-> FALSE, first |-> <<>>, second |-> <<>>]

\* the mutant of decode: the token is split and its header examined before
\* the signature is verified
decode_HeaderFirst(tok, key, alg) ==
    LET t1 == expect_two(rsplitn2(tok))
    IN  IF ~t1.ok THEN Err("InvalidToken")
        ELSE LET t2 == expect_two(rsplitn2(t1.second))
             IN  IF ~t2.ok THEN Err("InvalidToken")
                 ELSE LET h == Header_from_base64(t2.second)
                      IN  IF ~h.ok THEN Err("InvalidToken")
                          ELSE IF h.header.alg # alg THEN Err("WrongAlgorithmHeader")
                          ELSE IF ~verify(t1.first, t1.second, key, alg)
                          THEN Err("InvalidSignature")
                          ELSE Part_from_base64(t2.first)

decode(tok, key, alg) ==
    LET t1 == expect_two(rsplitn2(tok))
    IN  IF ~t1.ok THEN Err("InvalidToken")
        ELSE LET signature == t1.first
                 payload == t1.second
                 is_valid == verify(signature, payload, key, alg)
             IN  IF ~is_valid THEN Err("InvalidSignature")
                 ELSE LET t2 == expect_two(rsplitn2(payload))
                      IN  IF ~t2.ok THEN Err("InvalidToken")
                          ELSE LET h == Header_from_base64(t2.second)
                               IN  IF ~h.ok THEN Err("InvalidToken")
                                   ELSE IF h.header.alg # alg
                                   THEN Err("WrongAlgorithmHeader")
                                   ELSE Part_from_base64(t2.first)

(***************************************************************************)
(* Inputs.                                                                 *)
(***************************************************************************)
\* characters of the sub field: '"'
FieldChars == {34}

RECURSIVE Strings(_)
Strings(n) ==
    IF n = 0 THEN { <<>> }
    ELSE Strings(n - 1) \cup {Append(s, c) : s \in Strings(n - 1), c \in FieldChars}

\* the company of the tests, "ACME", and the text of '.', LF and '\'
Companies == { <<65, 67, 77, 69>>, <<46, 10, 92>> }

ClaimsRecords == {[sub |-> s, company |-> c] : s \in Strings(MaxFieldLen), c \in Companies}

\* "k" and the secret of the tests, "secret"
Secrets == { <<107>>, <<115, 101, 99, 114, 101, 116>> }

\* replacement characters of a tampered signature: '.' and 'A'
TamperChars == {46, 65}

\* a header literal with its last character changed
BadHeader == [LitHS256 EXCEPT ![Len(LitHS256)] = 65]

\* segments a crafted token starts with
HeaderParts == {LitHS256, LitHS384, <<>>, BadHeader}

\* the claims of the tests: sub "b@b.com", company "ACME"
TestClaims ==
    [sub |-> <<98, 64, 98, 46, 99, 111, 109>>, company |-> <<65, 67, 77, 69>>]

\* {"company":"b", "sub":"A\n", "n":[1,{}]} and a space: JSON that
\* json::encode does not write
LooseJson ==
    <<123, 34, 99, 111, 109, 112, 97, 110, 121, 34, 58, 34, 98, 34, 44, 32, 34,
      115, 117, 98, 34, 58, 34, 92, 117, 48, 48, 52, 49, 92, 110, 34, 44, 32,
      34, 110, 34, 58, 91, 49, 44, 123, 125, 93, 125, 32>>

\* second segments of a crafted token: encoded claims, the empty text,
\* "_w" (base64 of byte 255, no UTF-8), "!" (no base64)
ClaimParts ==
    { Part_to_base64(TestClaims), ToBase64(LooseJson), <<>>, <<95, 119>>, <<33>> }

\* the second segments that a further segment may follow, and the further
\* segments: the empty text and "x"
ShortClaimParts == { Part_to_base64(TestClaims), <<>> }
Fillers == { <<>>, <<120>> }

\* signature segments that are not computed: the empty text and the
\* signature of the test sign_hs256,
\* c0zGLzKEFWj0VxWuufTXiRMk5tlI5MbGDAYhzaxIYjo
StaleSignature ==
    <<99, 48, 122, 71, 76, 122, 75, 69, 70, 87, 106, 48, 86, 120, 87, 117, 117,
      102, 84, 88, 105, 82, 77, 107, 53, 116, 108, 73, 53, 77, 98, 71, 68, 65,
      89, 104, 122, 97, 120, 73, 89, 106, 111>>
SigParts == { <<>>, StaleSignature }

\* the text p followed by n segments x
RECURSIVE Extend(_, _, _)
Extend(p, x, n) == IF n = 0 THEN p ELSE Extend(JoinDot(p, x), x, n - 1)

\* the texts before the last '.' of a crafted token: 1 .. MaxSegments - 1
\* segments
Payloads ==
    HeaderParts
    \cup { JoinDot(h, c) : h \in HeaderParts, c \in ClaimParts }
    \cup UNION { { Extend(JoinDot(h, c), x, n) : h \in HeaderParts, c \in ShortClaimParts,
                                                  x \in Fillers }
                 : n \in 1..(MaxSegments - 3) }

\* the secret and the algorithms crafted tokens are signed with
CraftSecret == <<107>>
CraftAlgorithms == {"HS256", "HS384"}

(***************************************************************************)
(* The state machine.                                                      *)
(***************************************************************************)
NoResult == [kind |-> "none", value |-> NoClaims]
NoHResult == [ok |-> FALSE, header |-> NoHeader]

Init ==
    /\ pc = "start"
    /\ claims = NoClaims
    /\ secret = <<>>
    /\ algorithm = "HS256"
    /\ token = <<>>
    /\ dsecret = <<>>
    /\ dalgorithm = "HS256"
    /\ result = NoResult
    /\ htext = <<>>
    /\ hresult = NoHResult

\* a caller issues a token: encode(&c, s, a)
Encode(c, s, a) ==
    /\ pc = "start"
    /\ pc' = "encoded"
    /\ claims' = c
    /\ secret' = s
    /\ algorithm' = a
    /\ token' = encode(c, s, a)
    /\ UNCHANGED <<dsecret, dalgorithm, result, htext, hresult>>

\* the position of the first character of the signature segment
SigStart(tok) == Max(DotsOf(tok)) + 1

\* the first or the last character of the issued token's signature segment
\* is replaced by another character
Tamper(i, ch) ==
    /\ pc = "encoded"
    /\ i \in {SigStart(token), Len(token)}
    /\ token[i] # ch
    /\ pc' = "tampered"
    /\ token' = [token EXCEPT ![i] = ch]
    /\ UNCHANGED <<claims, secret, algorithm, dsecret, dalgorithm, result, htext, hresult>>

\* a token is put together from segments and a signature segment that is
\* not computed, and presented to a verifier holding CraftSecret under
\* HS256
CraftUnsigned(p, g) ==
    /\ pc = "start"
    /\ pc' = "crafted"
    /\ secret' = CraftSecret
    /\ algorithm' = "HS256"
    /\ token' = JoinDot(p, g)
    /\ UNCHANGED <<claims, dsecret, dalgorithm, result, htext, hresult>>

\* a token is put together from segments and signed with CraftSecret under
\* a (whatever the segments are)
CraftSigned(p, a) ==
    /\ pc = "start"
    /\ pc' = "crafted"
    /\ secret' = CraftSecret
    /\ algorithm' = a
    /\ token' = JoinDot(p, sign(p, CraftSecret, a))
    /\ UNCHANGED <<claims, dsecret, dalgorithm, result, htext, hresult>>

\* a token without any '.'
CraftBare(p) ==
    /\ pc = "start"
    /\ pc' = "crafted"
    /\ secret' = CraftSecret
    /\ token' = p
    /\ UNCHANGED <<claims, algorithm, dsecret, dalgorithm, result, htext, hresult>>

\* a caller decodes the issued token with the issuing secret or the issuing
\* algorithm (or both): decode::<Claims>(&token, s, a)
Decode(s, a) ==
    /\ pc = "encoded"
    /\ s = secret \/ a = algorithm
    /\ pc' = "decoded"
    /\ dsecret' = s
    /\ dalgorithm' = a
    /\ result' = decode(token, s, a)
    /\ UNCHANGED <<claims, secret, algorithm, token, htext, hresult>>

\* the issuer decodes the tampered token with the secret and the algorithm
\* the token was issued with
DecodeTampered ==
    /\ pc = "tampered"
    /\ pc' = "decoded_tampered"
    /\ dsecret' = secret
    /\ dalgorithm' = algorithm
    /\ result' = decode(token, secret, algorithm)
    /\ UNCHANGED <<claims, secret, algorithm, token, htext, hresult>>

\* the verifier decodes the crafted token
DecodeCrafted ==
    /\ pc = "crafted"
    /\ pc' = "decoded_crafted"
    /\ dsecret' = secret
    /\ dalgorithm' = algorithm
    /\ result' = decode(token, secret, algorithm)
    /\ UNCHANGED <<claims, secret, algorithm, token, htext, hresult>>

\* Header::from_base64(Header::new(a).to_base64())
HeaderRoundTrip(a) ==
    /\ pc = "start"
    /\ pc' = "header_round_trip"
    /\ algorithm' = a
    /\ htext' = Header_to_base64(Header_new(a))
    /\ hresult' = Header_from_base64(htext')
    /\ UNCHANGED <<claims, secret, token, dsecret, dalgorithm, result>>

\* texts near the header literals: each literal, and each literal with one
\* character replaced, with its last character dropped, or with a
\* character added
HeaderTexts ==
    LET lits == {LitHS256, LitHS384, LitHS512}
    IN  lits \cup { <<>> }
        \cup { [l EXCEPT ![i] = c] : l \in lits, i \in 1..Len(LitHS256), c \in {65, 46} }
        \cup { SubSeq(l, 1, Len(l) - 1) : l \in lits }
        \cup { Append(l, c) : l \in lits, c \in {65, 61} }

\* Header::from_base64(text)
HeaderParse(text) ==
    /\ pc = "start"
    /\ pc' = "header_parsed"
    /\ htext' = text
    /\ hresult' = Header_from_base64(text)
    /\ UNCHANGED <<claims, secret, algorithm, token, dsecret, dalgorithm, result>>

Next ==
    \/ \E c \in ClaimsRecords, s \in Secrets, a \in Algorithm : Encode(c, s, a)
    \/ \E i \in 1..Len(token), ch \in TamperChars : Tamper(i, ch)
    \/ \E p \in Payloads, g \in SigParts : CraftUnsigned(p, g)
    \/ \E p \in Payloads, a \in CraftAlgorithms : CraftSigned(p, a)
    \/ \E p \in HeaderParts \cup ClaimParts : CraftBare(p)
    \/ \E s \in Secrets, a \in Algorithm : Decode(s, a)
    \/ DecodeTampered
    \/ DecodeCrafted
    \/ \E a \in Algorithm : HeaderRoundTrip(a)
    \/ \E text \in HeaderTexts : HeaderParse(text)

Spec == Init /\ [][Next]_vars

(***************************************************************************)
(* Vocabulary of the properties, defined on the token text alone.          *)
(***************************************************************************)
Decoded == pc \in {"decoded", "decoded_tampered", "decoded_crafted"}

DotPositions(tok) == {i \in 1..Len(tok) : tok[i] = 46}
NumSegments(tok) == Cardinality(DotPositions(tok)) + 1
LastDot(tok) == CHOOSE i \in DotPositions(tok) : \A j \in DotPositions(tok) : j <= i
PrevDot(tok) ==
    CHOOSE i \in DotPositions(tok) \ {LastDot(tok)} :
        \A j \in DotPositions(tok) \ {LastDot(tok)} : j <= i

\* the text after the last '.', and the text before it
SigText(tok) == SubSeq(tok, LastDot(tok) + 1, Len(tok))
SignedText(tok) == SubSeq(tok, 1, LastDot(tok) - 1)
\* the text before the second-to-last '.', and the text between the last two
HeaderText(tok) == SubSeq(tok, 1, PrevDot(tok) - 1)
ClaimsText(tok) == SubSeq(tok, PrevDot(tok) + 1, LastDot(tok) - 1)

\* the number of characters of a signature: the unpadded base64 text of 32,
\* 48 or 64 bytes
SignatureLength(a) ==
    CASE a = "HS256" -> 43
      [] a = "HS384" -> 64
      [] a = "HS512" -> 86

\* the last segment is the signature of the text before it under the
\* secret and the algorithm decode was called with (a text of another
\* length than a signature's is none)
SignatureVerifies ==
    /\ NumSegments(token) >= 2
    /\ Len(SigText(token)) = SignatureLength(dalgorithm)
    /\ SigText(token) = sign(SignedText(token), dsecret, dalgorithm)

HeaderLiteral(a) == Header_to_base64(Header_new(a))
HeaderLiterals == {HeaderLiteral(a) : a \in Algorithm}

\* some '.'-separated segment of the text is empty
HasEmptySegment(tok) ==
    \/ tok = <<>>
    \/ tok[1] = 46
    \/ tok[Len(tok)] = 46
    \/ \E i \in 1..(Len(tok) - 1) : tok[i] = 46 /\ tok[i + 1] = 46

(***************************************************************************)
(* The properties.                                                         *)
(***************************************************************************)
\* C1: round trip.  A token issued by encode(C, S, A), decoded with the
\* same secret and algorithm, gives Ok(C), whatever characters ('"', '.',
\* '\', a line feed) the fields of C hold.
C1_RoundTrip ==
    (pc = "decoded" /\ dsecret = secret /\ dalgorithm = algorithm)
        => result = Ok(claims)

C1_Witness ==
    /\ pc = "decoded" /\ dsecret = secret /\ dalgorithm = algorithm
    /\ claims.sub = <<34>> /\ claims.company = <<46, 10, 92>>
    /\ result.kind = "Ok"

\* C2, as claimed: a token issued under algorithm A and decoded with the
\* same secret under another algorithm B fails with WrongAlgorithmHeader.
C2_Original ==
    (pc = "decoded" /\ dsecret = secret /\ dalgorithm # algorithm)
        => result = Err("WrongAlgorithmHeader")

\* C2, amended: a token issued under algorithm A and decoded with the same
\* secret under another algorithm B fails with InvalidSignature: the
\* signature is recomputed under B before the header is looked at.
C2_AlgorithmBinding ==
    (pc = "decoded" /\ dsecret = secret /\ dalgorithm # algorithm)
        => result = Err("InvalidSignature")

C2_Witness ==
    /\ pc = "decoded" /\ dsecret = secret
    /\ algorithm = "HS256" /\ dalgorithm = "HS384"
    /\ HeaderText(token) = HeaderLiteral("HS256")
    /\ result.kind = "InvalidSignature"

\* C3, as claimed: a token whose number of '.'-separated segments is not 3
\* fails with InvalidToken.
C3_Original ==
    (Decoded /\ NumSegments(token) # 3) => result = Err("InvalidToken")

\* C3, amended: a token whose number of '.'-separated segments is not 3
\* fails, with InvalidToken when it has a single segment or when its last
\* segment is the signature of the text before it, and with
\* InvalidSignature otherwise.
C3_StructuralRejection ==
    (Decoded /\ NumSegments(token) # 3)
        => result = IF NumSegments(token) = 1 \/ SignatureVerifies
                    THEN Err("InvalidToken")
                    ELSE Err("InvalidSignature")

C3_Witness ==
    /\ Decoded /\ NumSegments(token) = 2
    /\ result.kind = "InvalidSignature"
    /\ ~SignatureVerifies

\* C4: authenticity.  decode returns Ok only for a token of exactly three
\* segments h.c.g where h is the header literal of the requested algorithm
\* and g is the signature of h.c under the caller's secret and algorithm.
C4_Authenticity ==
    (Decoded /\ result.kind = "Ok")
        => /\ NumSegments(token) = 3
           /\ HeaderText(token) = HeaderLiteral(dalgorithm)
           /\ SigText(token)
                = sign(JoinDot(HeaderText(token), ClaimsText(token)), dsecret, dalgorithm)

C4_Witness ==
    /\ pc = "decoded_crafted" /\ result.kind = "Ok"
    /\ dalgorithm = "HS384"
    /\ result.value.sub = <<65, 10>>

\* C5: tamper detection.  A valid token with one character of its
\* signature segment replaced by another character (by '.' too), decoded
\* with the issuing secret and algorithm, fails with InvalidSignature.
C5_TamperDetection ==
    pc = "decoded_tampered" => result = Err("InvalidSignature")

C5_Witness ==
    /\ pc = "decoded_tampered"
    /\ NumSegments(token) = 3
    /\ token[Len(token)] = 65
    /\ result.kind = "InvalidSignature"

\* C6, as claimed: a token with an empty segment is rejected with
\* InvalidToken.
C6_Original ==
    (Decoded /\ HasEmptySegment(token)) => result = Err("InvalidToken")

\* C6, amended: a token with an empty segment is always rejected, though
\* not always with InvalidToken: with InvalidSignature when it holds a '.'
\* and its last segment is not the signature of the text before it (so
\* whenever the signature segment is empty); otherwise with InvalidToken,
\* except for a three-segment token of a header literal and empty claims,
\* which gives JsonDecodeError under the literal's algorithm and
\* WrongAlgorithmHeader under another.
C6_EmptySegments ==
    (Decoded /\ HasEmptySegment(token))
        => result =
             IF NumSegments(token) = 1 THEN Err("InvalidToken")
             ELSE IF ~SignatureVerifies THEN Err("InvalidSignature")
             ELSE IF /\ NumSegments(token) = 3
                     /\ HeaderText(token) \in HeaderLiterals
                     /\ ClaimsText(token) = <<>>
             THEN IF HeaderText(token) = HeaderLiteral(dalgorithm)
                  THEN Err("JsonDecodeError")
                  ELSE Err("WrongAlgorithmHeader")
             ELSE Err("InvalidToken")

C6_Witness ==
    /\ Decoded /\ NumSegments(token) = 3
    /\ SigText(token) = <<>>
    /\ HeaderText(token) = HeaderLiteral(dalgorithm)
    /\ ClaimsText(token) # <<>>
    /\ result.kind = "InvalidSignature"

\* C8: the header codec is a bijection on the algorithms.  The literals of
\* distinct algorithms differ, from_base64 of an algorithm's literal is the
\* header of that algorithm (typ "JWT"), and from_base64 is InvalidToken
\* for every text that is none of the three literals.
C8_HeaderCodec ==
    /\ pc = "header_round_trip"
         => /\ hresult = [ok |-> TRUE, header |-> [typ |-> "JWT", alg |-> algorithm]]
            /\ \A b \in Algorithm \ {algorithm} : HeaderLiteral(b) # htext
    /\ pc = "header_parsed"
         => (hresult.ok <=> htext \in {LitHS256, LitHS384, LitHS512})

C8_Witness ==
    /\ pc = "header_round_trip" /\ algorithm = "HS384"
    /\ hresult.ok /\ hresult.header.alg = "HS384"

\* C9: the signature check comes first.  A token holding a '.' whose last
\* segment is not the signature of the text before it fails with
\* InvalidSignature, whatever its header and claims segments are; stated
\* by its contrapositive: any other outcome of decoding a token holding a
\* '.' means that the last segment is the signature of the text before it.
C9_SignatureFirst ==
    (Decoded /\ NumSegments(token) >= 2 /\ result # Err("InvalidSignature"))
        => SignatureVerifies

C9_Witness ==
    /\ pc = "decoded_crafted" /\ NumSegments(token) = 3
    /\ HeaderText(token) \in HeaderLiterals \ {HeaderLiteral(dalgorithm)}
    /\ ~FromBase64(ClaimsText(token)).ok
    /\ result.kind = "InvalidSignature"
    /\ ~SignatureVerifies

\* C10: decode returns WrongAlgorithmHeader exactly when the token holds
\* at least two '.', its last segment is the signature of the text before
\* it under the requested algorithm, and the text before the second-to-last
\* '.' is the header literal of another algorithm.
C10_WrongAlgorithmExactly ==
    Decoded =>
        (result.kind = "WrongAlgorithmHeader"
            <=> /\ NumSegments(token) >= 3
                /\ HeaderText(token) \in HeaderLiterals \ {HeaderLiteral(dalgorithm)}
                /\ SignatureVerifies)

C10_Witness ==
    /\ Decoded /\ result.kind = "WrongAlgorithmHeader"
    /\ HeaderText(token) = HeaderLiteral("HS256") /\ dalgorithm = "HS384"

====
